---- MODULE Spec2Model ----
(***************************************************************************)
(* Model of the TariffTaxIQ tariff impact calculator.                      *)
(*                                                                         *)
(* JavaScript numbers are modelled as exact rationals extended with the    *)
(* three IEEE-754 specials the code can produce: a value is a record       *)
(* [t, n, d]; t = "number" and d > 0 is the rational n/d in lowest terms,  *)
(* d = 0 is +Infinity (n = 1), -Infinity (n = -1) or NaN (n = 0).          *)
(* t = "undefined" is the JavaScript value undefined.  Binary rounding of  *)
(* doubles and the sign of zero are not modelled.                          *)
(***************************************************************************)
EXTENDS Integers, Sequences, FiniteSets, TLC

VARIABLES
    retailPrice,        \* Calculator.jsx useState(100)
    retailMarkup,       \* Calculator.jsx useState(50)
    tariffRate,         \* Calculator.jsx useState(10)
    inventoryBuffer,    \* Calculator.jsx useState(3)
    customPassThrough,  \* Calculator.jsx useState(75)
    selectedProduct,    \* App.jsx useState(''), handed to Calculator as a prop
    products,           \* the products prop of Calculator
    apiProducts,        \* Calculator.jsx useState([])
    loading,            \* Calculator.jsx useState(false)
    error,              \* Calculator.jsx useState(null)
    fetchState,         \* position of the fetchProducts() call started on mount
    timer,              \* the pending setTimeout of the debounce effect
    calculating,        \* Calculator.jsx useState(false)
    apiCalculations,    \* Calculator.jsx useState(null): 0 is null, n the
                        \* response to the n-th request
    inFlight,           \* requests of performApiCalculation() awaiting a response
    issued,             \* number of requests performApiCalculation() has sent
    sent,               \* the retail_price sent with each request that is in
                        \* flight or whose response apiCalculations holds
    pc,                 \* "input" before a function is applied, "done" after
    op,                 \* name of the function that was applied
    argA, argB,         \* arguments of a two-argument helper
    argProduct,         \* argument of the pass-through derivation
    result              \* outcome of the applied function

vars == <<retailPrice, retailMarkup, tariffRate, inventoryBuffer, customPassThrough,
          selectedProduct, products, apiProducts, loading, error, fetchState,
          timer, calculating, apiCalculations, inFlight, issued, sent,
          pc, op, argA, argB, argProduct, result>>

inputVars == <<retailPrice, retailMarkup, tariffRate, inventoryBuffer, customPassThrough>>
uiVars == <<selectedProduct, products, apiProducts, loading, error, fetchState>>
helperVars == <<argA, argB>>
calcVars == <<calculating, apiCalculations, inFlight, issued, sent>>

(***************************************************************************)
(* JavaScript numbers                                                      *)
(***************************************************************************)
IAbs(i) == IF i < 0 THEN -i ELSE i

RECURSIVE GCD(_, _)
GCD(a, b) == IF b = 0 THEN a ELSE GCD(b, a % b)

\* the rational n/d, d # 0, in lowest terms with a positive denominator
Rat(n, d) ==
    LET g == GCD(IAbs(n), IAbs(d))
        s == IF d < 0 THEN -1 ELSE 1
    IN  [t |-> "number", n |-> (s * n) \div g, d |-> IAbs(d) \div g]

Num(i) == [t |-> "number", n |-> i, d |-> 1]
NaN == [t |-> "number", n |-> 0, d |-> 0]
PosInf == [t |-> "number", n |-> 1, d |-> 0]
NegInf == [t |-> "number", n |-> -1, d |-> 0]
Undefined == [t |-> "undefined", n |-> 0, d |-> 0]
Zero == Num(0)

TypeofNumber(v) == v.t = "number"
ToNumber(v) == IF v.t = "number" THEN v ELSE NaN
IsNaN(v) == v.t = "number" /\ v.d = 0 /\ v.n = 0
IsFinite(v) == v.t = "number" /\ v.d > 0
ISign(i) == IF i > 0 THEN 1 ELSE IF i < 0 THEN -1 ELSE 0
Inf(s) == IF s < 0 THEN NegInf ELSE PosInf

\* a + b
JsAdd(a, b) ==
    LET x == ToNumber(a)
        y == ToNumber(b)
    IN  IF IsNaN(x) \/ IsNaN(y) THEN NaN
        ELSE IF x.d = 0 /\ y.d = 0 THEN (IF x.n = y.n THEN x ELSE NaN)
        ELSE IF x.d = 0 THEN x
        ELSE IF y.d = 0 THEN y
        ELSE Rat(x.n * y.d + y.n * x.d, x.d * y.d)

\* a * b
JsMul(a, b) ==
    LET x == ToNumber(a)
        y == ToNumber(b)
    IN  IF IsNaN(x) \/ IsNaN(y) THEN NaN
        ELSE IF x.d = 0 \/ y.d = 0
             THEN (IF x.n = 0 \/ y.n = 0 THEN NaN ELSE Inf(ISign(x.n) * ISign(y.n)))
        ELSE Rat(x.n * y.n, x.d * y.d)

\* a / b
JsDiv(a, b) ==
    LET x == ToNumber(a)
        y == ToNumber(b)
    IN  IF IsNaN(x) \/ IsNaN(y) THEN NaN
        ELSE IF x.d = 0 /\ y.d = 0 THEN NaN
        ELSE IF x.d = 0 THEN Inf(ISign(x.n) * (IF y.n < 0 THEN -1 ELSE 1))
        ELSE IF y.d = 0 THEN Zero
        ELSE IF y.n = 0 THEN (IF x.n = 0 THEN NaN ELSE Inf(ISign(x.n)))
        ELSE Rat(x.n * y.d, x.d * y.n)

JsNeg(a) ==
    LET x == ToNumber(a)
    IN  [t |-> "number", n |-> -(x.n), d |-> x.d]

\* a - b
JsSub(a, b) == JsAdd(a, JsNeg(b))

\* Math.abs(a)
MathAbs(a) ==
    LET x == ToNumber(a)
    IN  [t |-> "number", n |-> IAbs(x.n), d |-> x.d]

\* a < b ; every comparison with NaN is false
JsLt(a, b) ==
    LET x == ToNumber(a)
        y == ToNumber(b)
    IN  /\ ~IsNaN(x)
        /\ ~IsNaN(y)
        /\ IF x.d = 0 /\ y.d = 0 THEN x.n < y.n
           ELSE IF x.d = 0 THEN x.n < 0
           ELSE IF y.d = 0 THEN y.n > 0
           ELSE x.n * y.d < y.n * x.d

\* a <= b
JsLe(a, b) ==
    LET x == ToNumber(a)
        y == ToNumber(b)
    IN  ~IsNaN(x) /\ ~IsNaN(y) /\ (x = y \/ JsLt(x, y))

JsGt(a, b) == JsLt(b, a)
JsGe(a, b) == JsLe(b, a)

\* Math.max(a, b) and Math.min(a, b): NaN when either argument is NaN
MathMax(a, b) ==
    LET x == ToNumber(a)
        y == ToNumber(b)
    IN  IF IsNaN(x) \/ IsNaN(y) THEN NaN ELSE IF JsLt(x, y) THEN y ELSE x

MathMin(a, b) ==
    LET x == ToNumber(a)
        y == ToNumber(b)
    IN  IF IsNaN(x) \/ IsNaN(y) THEN NaN ELSE IF JsLt(y, x) THEN y ELSE x

\* truthiness of a number or undefined: 0, NaN and undefined are falsy
Truthy(v) == v.t = "number" /\ ~(v.n = 0)

\* v || w
JsOr(v, w) == IF Truthy(v) THEN v ELSE w

Hundred == Num(100)
Twelve == Num(12)
One == Num(1)

(***************************************************************************)
(* utils/calculations.js, validating versions (lines 116-326)              *)
(***************************************************************************)
\* calculateImportCost without the guard on the price
calculateImportCostNoPriceGuard(price, markupPercent) ==
    IF ~TypeofNumber(price) \/ ~TypeofNumber(markupPercent)
    THEN Zero
    ELSE IF JsLe(markupPercent, Num(-100)) THEN Zero
    ELSE JsDiv(price, JsAdd(One, JsDiv(markupPercent, Hundred)))

\* calculateImportCost letting a markup of exactly -100 through
calculateImportCostStrictMarkup(price, markupPercent) ==
    IF ~TypeofNumber(price) \/ ~TypeofNumber(markupPercent) \/ JsLe(price, Zero)
    THEN Zero
    ELSE IF JsLt(markupPercent, Num(-100)) THEN Zero
    ELSE JsDiv(price, JsAdd(One, JsDiv(markupPercent, Hundred)))

\* calculateImportCost without its guards on the price and the markup
calculateImportCostNoGuard(price, markupPercent) ==
    JsDiv(price, JsAdd(One, JsDiv(markupPercent, Hundred)))

\* calculateImportCost taking the markup off the price as a margin
calculateImportCostMargin(price, markupPercent) ==
    IF ~TypeofNumber(price) \/ ~TypeofNumber(markupPercent) \/ JsLe(price, Zero)
    THEN Zero
    ELSE IF JsLe(markupPercent, Num(-100)) THEN Zero
    ELSE JsMul(price, JsSub(One, JsDiv(markupPercent, Hundred)))

calculateImportCost(price, markupPercent) ==
    IF ~TypeofNumber(price) \/ ~TypeofNumber(markupPercent) \/ JsLe(price, Zero)
    THEN Zero
    ELSE IF JsLe(markupPercent, Num(-100)) THEN Zero
    ELSE JsDiv(price, JsAdd(One, JsDiv(markupPercent, Hundred)))

\* calculateTariffAmount taking the absolute value of a negative rate
calculateTariffAmountAbsRate(importCost, rate) ==
    IF ~TypeofNumber(importCost) \/ ~TypeofNumber(rate) \/ JsLt(importCost, Zero)
    THEN Zero
    ELSE JsMul(importCost, JsDiv(MathAbs(rate), Hundred))

\* calculateTariffAmount returning the import cost with the tariff on top
calculateTariffAmountInclusive(importCost, rate) ==
    IF ~TypeofNumber(importCost) \/ ~TypeofNumber(rate)
       \/ JsLt(importCost, Zero) \/ JsLt(rate, Zero)
    THEN Zero
    ELSE JsMul(importCost, JsAdd(One, JsDiv(rate, Hundred)))

calculateTariffAmount(importCost, rate) ==
    IF ~TypeofNumber(importCost) \/ ~TypeofNumber(rate)
       \/ JsLt(importCost, Zero) \/ JsLt(rate, Zero)
    THEN Zero
    ELSE JsMul(importCost, JsDiv(rate, Hundred))

\* calculateTariffPassed using the rate as it comes, without the clamp
calculateTariffPassedNoClamp(tariffAmount, passThroughRate) ==
    IF ~TypeofNumber(tariffAmount) \/ ~TypeofNumber(passThroughRate)
       \/ JsLt(tariffAmount, Zero)
    THEN Zero
    ELSE JsMul(tariffAmount, JsDiv(passThroughRate, Hundred))

\* calculateTariffPassed clamping the rate from above only
calculateTariffPassedNoLowerClamp(tariffAmount, passThroughRate) ==
    IF ~TypeofNumber(tariffAmount) \/ ~TypeofNumber(passThroughRate)
       \/ JsLt(tariffAmount, Zero)
    THEN Zero
    ELSE LET clampedRate == MathMin(Hundred, passThroughRate)
         IN  JsMul(tariffAmount, JsDiv(clampedRate, Hundred))

\* calculateTariffPassed clamping the rate from below only
calculateTariffPassedNoUpperClamp(tariffAmount, passThroughRate) ==
    IF ~TypeofNumber(tariffAmount) \/ ~TypeofNumber(passThroughRate)
       \/ JsLt(tariffAmount, Zero)
    THEN Zero
    ELSE LET clampedRate == MathMax(Zero, passThroughRate)
         IN  JsMul(tariffAmount, JsDiv(clampedRate, Hundred))

\* calculateTariffPassed without the conversion of the percentage
calculateTariffPassedNoPercent(tariffAmount, passThroughRate) ==
    IF ~TypeofNumber(tariffAmount) \/ ~TypeofNumber(passThroughRate)
       \/ JsLt(tariffAmount, Zero)
    THEN Zero
    ELSE LET clampedRate == MathMax(Zero, MathMin(Hundred, passThroughRate))
         IN  JsMul(tariffAmount, clampedRate)

calculateTariffPassed(tariffAmount, passThroughRate) ==
    IF ~TypeofNumber(tariffAmount) \/ ~TypeofNumber(passThroughRate)
       \/ JsLt(tariffAmount, Zero)
    THEN Zero
    ELSE LET clampedRate == MathMax(Zero, MathMin(Hundred, passThroughRate))
         IN  JsMul(tariffAmount, JsDiv(clampedRate, Hundred))

\* calculateFuturePrice without the guard on a negative tariffPassed
calculateFuturePriceNoTariffGuard(price, tariffPassed) ==
    IF ~TypeofNumber(price) \/ ~TypeofNumber(tariffPassed) \/ JsLt(price, Zero)
    THEN JsOr(price, Zero)
    ELSE JsAdd(price, tariffPassed)

calculateFuturePrice(price, tariffPassed) ==
    IF ~TypeofNumber(price) \/ ~TypeofNumber(tariffPassed)
       \/ JsLt(price, Zero) \/ JsLt(tariffPassed, Zero)
    THEN JsOr(price, Zero)
    ELSE JsAdd(price, tariffPassed)

\* calculateTariffTaxPercentage letting a futurePrice of exactly 0 through
calculateTariffTaxPercentageStrictGuard(tariffPassed, futurePrice) ==
    IF ~TypeofNumber(tariffPassed) \/ ~TypeofNumber(futurePrice)
       \/ JsLt(futurePrice, Zero) \/ JsLt(tariffPassed, Zero)
    THEN Zero
    ELSE JsMul(JsDiv(tariffPassed, futurePrice), Hundred)

calculateTariffTaxPercentage(tariffPassed, futurePrice) ==
    IF ~TypeofNumber(tariffPassed) \/ ~TypeofNumber(futurePrice)
       \/ JsLe(futurePrice, Zero) \/ JsLt(tariffPassed, Zero)
    THEN Zero
    ELSE JsMul(JsDiv(tariffPassed, futurePrice), Hundred)

\* calculateInventoryImpact without the clamp of the months
calculateInventoryImpactNoClamp(inventoryMonths, priceIncrease) ==
    IF ~TypeofNumber(inventoryMonths) \/ ~TypeofNumber(priceIncrease)
       \/ JsLt(priceIncrease, Zero)
    THEN JsOr(priceIncrease, Zero)
    ELSE JsMul(priceIncrease, JsSub(One, JsDiv(inventoryMonths, Twelve)))

\* calculateInventoryImpact clamping the months from below only
calculateInventoryImpactNoUpperClamp(inventoryMonths, priceIncrease) ==
    IF ~TypeofNumber(inventoryMonths) \/ ~TypeofNumber(priceIncrease)
       \/ JsLt(priceIncrease, Zero)
    THEN JsOr(priceIncrease, Zero)
    ELSE LET clampedMonths == MathMax(Zero, inventoryMonths)
         IN  JsMul(priceIncrease, JsSub(One, JsDiv(clampedMonths, Twelve)))

calculateInventoryImpact(inventoryMonths, priceIncrease) ==
    IF ~TypeofNumber(inventoryMonths) \/ ~TypeofNumber(priceIncrease)
       \/ JsLt(priceIncrease, Zero)
    THEN JsOr(priceIncrease, Zero)
    ELSE LET clampedMonths == MathMax(Zero, MathMin(Twelve, inventoryMonths))
         IN  JsMul(priceIncrease, JsSub(One, JsDiv(clampedMonths, Twelve)))

\* Number.prototype.toFixed(2): the decimal string with two digits after the
\* point, halves rounded away from zero; d = 100 is the digit string n/100,
\* d = 0 is "Infinity", "-Infinity" or "NaN"
ToFixed2(v) ==
    LET x == ToNumber(v)
    IN  IF x.d = 0
        THEN [t |-> "string", n |-> x.n, d |-> 0]
        ELSE [t |-> "string",
              n |-> ISign(x.n) * ((2 * IAbs(x.n) * 100 + x.d) \div (2 * x.d)),
              d |-> 100]

\* the default of the parameter baseConsumption
DefaultBaseConsumption == Num(15)

calculateConsumerBurden(rate, passThrough) ==
    IF ~TypeofNumber(rate) \/ ~TypeofNumber(passThrough)
    THEN [t |-> "string", n |-> 0, d |-> 100]
    ELSE LET burden == JsMul(JsMul(rate, JsDiv(passThrough, Hundred)),
                             DefaultBaseConsumption)
         IN  ToFixed2(burden)

(***************************************************************************)
(* utils/calculations.js, unvalidated versions (lines 11-90)               *)
(***************************************************************************)
calculateConsumerBurdenUnvalidated(rate, passThrough) ==
    ToFixed2(JsMul(JsMul(rate, JsDiv(passThrough, Hundred)), DefaultBaseConsumption))

calculateImportCostUnvalidated(price, markupPercent) ==
    JsDiv(price, JsAdd(One, JsDiv(markupPercent, Hundred)))

\* the unvalidated calculateTariffAmount taking the rate as a fraction
calculateTariffAmountUnvalidatedFraction(importCost, rate) ==
    JsMul(importCost, rate)

calculateTariffAmountUnvalidated(importCost, rate) ==
    JsMul(importCost, JsDiv(rate, Hundred))

calculateTariffPassedUnvalidated(tariffAmount, passThroughRate) ==
    JsMul(tariffAmount, JsDiv(passThroughRate, Hundred))

calculateFuturePriceUnvalidated(price, tariffPassed) ==
    JsAdd(price, tariffPassed)

calculateTariffTaxPercentageUnvalidated(tariffPassed, futurePrice) ==
    IF JsGt(futurePrice, Zero)
    THEN JsMul(JsDiv(tariffPassed, futurePrice), Hundred)
    ELSE Zero

calculateInventoryImpactUnvalidated(inventoryMonths, priceIncrease) ==
    JsMul(priceIncrease, JsSub(One, JsDiv(inventoryMonths, Twelve)))

(***************************************************************************)
(* Outcomes of a call: a returned value or a thrown exception              *)
(***************************************************************************)
Return(v) == [kind |-> "return", value |-> v]
Throw == [kind |-> "throw", value |-> Undefined]
NoResult == [kind |-> "none", value |-> Undefined]

(***************************************************************************)
(* Products.  A product object may carry the API fields demand_elasticity  *)
(* and supply_elasticity, the local field elasticity {demand, supply}, or  *)
(* neither; exists = FALSE is the undefined that Array.find returns.       *)
(***************************************************************************)
Product(hs, de, se, el, dem, sup) ==
    [exists |-> TRUE, hsCode |-> hs, demand_elasticity |-> de, supply_elasticity |-> se,
     elasticity |-> el, demand |-> dem, supply |-> sup]

NoProduct ==
    [exists |-> FALSE, hsCode |-> "", demand_elasticity |-> Undefined,
     supply_elasticity |-> Undefined, elasticity |-> FALSE,
     demand |-> Undefined, supply |-> Undefined]

ApiProduct(hs, dem, sup) == Product(hs, dem, sup, FALSE, Undefined, Undefined)
LocalProduct(hs, dem, sup) == Product(hs, Undefined, Undefined, TRUE, dem, sup)
BareProduct(hs) == Product(hs, Undefined, Undefined, FALSE, Undefined, Undefined)

\* the formula without Math.abs
PassThroughFormulaNoAbs(demand, supply) ==
    JsMul(JsDiv(supply, JsAdd(supply, demand)), Hundred)

\* supply / (supply + Math.abs(demand)) * 100
PassThroughFormula(demand, supply) ==
    JsMul(JsDiv(supply, JsAdd(supply, MathAbs(demand))), Hundred)

\* utils/calculations.js, validating version
calculatePassThrough(product) ==
    IF ~product.exists \/ ~product.elasticity THEN Return(Zero)
    ELSE IF ~TypeofNumber(product.demand) \/ ~TypeofNumber(product.supply) THEN Return(Zero)
    ELSE Return(PassThroughFormula(product.demand, product.supply))

\* utils/calculations.js, unvalidated version: destructuring an absent
\* elasticity object throws a TypeError
calculatePassThroughUnvalidated(product) ==
    IF ~product.exists THEN Return(Zero)
    ELSE IF ~product.elasticity THEN Throw
    ELSE Return(PassThroughFormula(product.demand, product.supply))

\* the fixed default of Calculator.jsx
DefaultPassThrough == Num(75)

\* calculatedPassThrough defaulting to 0 as calculatePassThrough does
calculatedPassThroughOfZeroDefault(selectedProductData) ==
    IF ~selectedProductData.exists THEN Zero
    ELSE IF Truthy(selectedProductData.demand_elasticity)
            /\ Truthy(selectedProductData.supply_elasticity)
    THEN PassThroughFormula(selectedProductData.demand_elasticity,
                            selectedProductData.supply_elasticity)
    ELSE IF selectedProductData.elasticity
    THEN PassThroughFormula(selectedProductData.demand, selectedProductData.supply)
    ELSE Zero

\* Calculator.jsx, useMemo calculatedPassThrough
calculatedPassThroughOf(selectedProductData) ==
    IF ~selectedProductData.exists THEN DefaultPassThrough
    ELSE IF Truthy(selectedProductData.demand_elasticity)
            /\ Truthy(selectedProductData.supply_elasticity)
    THEN PassThroughFormula(selectedProductData.demand_elasticity,
                            selectedProductData.supply_elasticity)
    ELSE IF selectedProductData.elasticity
    THEN PassThroughFormula(selectedProductData.demand, selectedProductData.supply)
    ELSE DefaultPassThrough

(***************************************************************************)
(* Calculator.jsx, useMemo calculations: the pipeline                      *)
(***************************************************************************)
calculationsOf(price, markup, rate, passThrough, months) ==
    LET importCost == calculateImportCost(price, markup)
        tariffAmount == calculateTariffAmount(importCost, rate)
        effectivePassThrough == passThrough
        tariffPassed == calculateTariffPassed(tariffAmount, effectivePassThrough)
        futurePrice == calculateFuturePrice(price, tariffPassed)
        tariffTaxPct == calculateTariffTaxPercentage(tariffPassed, futurePrice)
        inventoryAdjustedIncrease == calculateInventoryImpact(months, tariffPassed)
    IN  [importCost |-> importCost,
         tariffAmount |-> tariffAmount,
         tariffPassed |-> tariffPassed,
         futurePrice |-> futurePrice,
         tariffTaxPct |-> tariffTaxPct,
         inventoryAdjustedIncrease |-> inventoryAdjustedIncrease,
         priceIncreasePercent |-> JsMul(JsDiv(tariffPassed, price), Hundred)]

calculations ==
    calculationsOf(retailPrice, retailMarkup, tariffRate, customPassThrough, inventoryBuffer)

(***************************************************************************)
(* Bounds of the input domains                                             *)
(***************************************************************************)
MaxArgSteps == 6
MaxMonthSteps == 4
MaxPriceSteps == 2
MaxMarkupSteps == 4
MaxTariffSteps == 2
MaxPassThroughSteps == 6
MaxInventorySteps == 6
MaxDemandHalves == 4
MaxSupplyHalves == 4

HelperArgs ==
    {Num(25 * k) : k \in (-MaxArgSteps)..MaxArgSteps}
    \cup {Num(3 * k) : k \in 1..MaxMonthSteps}
    \cup {NaN, PosInf, Undefined}

PriceValues == {Num(50 * k) : k \in (-1)..MaxPriceSteps}
MarkupValues == {Num(50 * k - 150) : k \in 0..MaxMarkupSteps}
TariffValues == {Num(25 * k - 25) : k \in 0..MaxTariffSteps}
PassThroughValues == {Num(25 * k - 25) : k \in 0..MaxPassThroughSteps}
InventoryValues == {Num(3 * k - 3) : k \in 0..MaxInventorySteps}

DemandValues == {Rat(-k, 2) : k \in (-1)..MaxDemandHalves}
SupplyValues == {Rat(k, 2) : k \in (-1)..MaxSupplyHalves}

ProductArgs ==
    {NoProduct, BareProduct("p"), LocalProduct("p", Undefined, Num(1)),
     LocalProduct("p", Num(-2), Undefined)}
    \cup {LocalProduct("p", dm, sp) : dm \in DemandValues, sp \in SupplyValues}
    \cup {ApiProduct("p", dm, sp) : dm \in DemandValues, sp \in SupplyValues}

(***************************************************************************)
(* Initial values of the Calculator's state (useState defaults)            *)
(***************************************************************************)
InputDefaults ==
    /\ retailPrice = Num(100)
    /\ retailMarkup = Num(50)
    /\ tariffRate = Num(10)
    /\ inventoryBuffer = Num(3)
    /\ customPassThrough = Num(75)

\* no setTimeout pending
NoTimer == [armed |-> FALSE, remaining |-> 0, inputs |-> <<>>]

\* no request sent
NoRequests == [id \in {} |-> Zero]

UiDefaults ==
    /\ selectedProduct = ""
    /\ products = <<>>
    /\ apiProducts = <<>>
    /\ loading = FALSE
    /\ error = "null"
    /\ fetchState = "idle"
    /\ timer = NoTimer
    /\ calculating = FALSE
    /\ apiCalculations = 0
    /\ inFlight = {}
    /\ issued = 0
    /\ sent = NoRequests

FnDefaults ==
    /\ pc = "input"
    /\ op = "none"
    /\ result = NoResult

(***************************************************************************)
(* SpecHelper: one two-argument helper applied to arbitrary arguments      *)
(***************************************************************************)
InitHelper ==
    /\ InputDefaults
    /\ UiDefaults
    /\ FnDefaults
    /\ argA \in HelperArgs
    /\ argB \in HelperArgs
    /\ argProduct = NoProduct

Apply(name, outcome) ==
    /\ pc = "input"
    /\ pc' = "done"
    /\ op' = name
    /\ result' = outcome
    /\ UNCHANGED <<inputVars, uiVars, timer, calcVars, helperVars, argProduct>>

ApplyImportCost == Apply("calculateImportCost", Return(calculateImportCost(argA, argB)))
ApplyTariffAmount == Apply("calculateTariffAmount", Return(calculateTariffAmount(argA, argB)))
ApplyTariffPassed == Apply("calculateTariffPassed", Return(calculateTariffPassed(argA, argB)))
ApplyFuturePrice == Apply("calculateFuturePrice", Return(calculateFuturePrice(argA, argB)))
ApplyTariffTaxPercentage ==
    Apply("calculateTariffTaxPercentage", Return(calculateTariffTaxPercentage(argA, argB)))
ApplyInventoryImpact ==
    Apply("calculateInventoryImpact", Return(calculateInventoryImpact(argA, argB)))
ApplyImportCostUnvalidated ==
    Apply("calculateImportCostUnvalidated", Return(calculateImportCostUnvalidated(argA, argB)))
ApplyTariffAmountUnvalidated ==
    Apply("calculateTariffAmountUnvalidated", Return(calculateTariffAmountUnvalidated(argA, argB)))
ApplyTariffPassedUnvalidated ==
    Apply("calculateTariffPassedUnvalidated", Return(calculateTariffPassedUnvalidated(argA, argB)))
ApplyFuturePriceUnvalidated ==
    Apply("calculateFuturePriceUnvalidated", Return(calculateFuturePriceUnvalidated(argA, argB)))
ApplyTariffTaxPercentageUnvalidated ==
    Apply("calculateTariffTaxPercentageUnvalidated",
          Return(calculateTariffTaxPercentageUnvalidated(argA, argB)))
ApplyInventoryImpactUnvalidated ==
    Apply("calculateInventoryImpactUnvalidated",
          Return(calculateInventoryImpactUnvalidated(argA, argB)))

ApplyConsumerBurden ==
    Apply("calculateConsumerBurden", Return(calculateConsumerBurden(argA, argB)))
ApplyConsumerBurdenUnvalidated ==
    Apply("calculateConsumerBurdenUnvalidated",
          Return(calculateConsumerBurdenUnvalidated(argA, argB)))
\* the pass-through derivations applied to a product whose elasticity object
\* holds the two arguments: { elasticity: { demand: argA, supply: argB } }
ApplyPassThroughOfPair ==
    Apply("calculatePassThroughOfPair", calculatePassThrough(LocalProduct("p", argA, argB)))
ApplyPassThroughOfPairUnvalidated ==
    Apply("calculatePassThroughOfPairUnvalidated",
          calculatePassThroughUnvalidated(LocalProduct("p", argA, argB)))

NextHelper ==
    \/ ApplyImportCost
    \/ ApplyTariffAmount
    \/ ApplyTariffPassed
    \/ ApplyFuturePrice
    \/ ApplyTariffTaxPercentage
    \/ ApplyInventoryImpact
    \/ ApplyImportCostUnvalidated
    \/ ApplyTariffAmountUnvalidated
    \/ ApplyTariffPassedUnvalidated
    \/ ApplyFuturePriceUnvalidated
    \/ ApplyTariffTaxPercentageUnvalidated
    \/ ApplyInventoryImpactUnvalidated
    \/ ApplyConsumerBurden
    \/ ApplyConsumerBurdenUnvalidated
    \/ ApplyPassThroughOfPair
    \/ ApplyPassThroughOfPairUnvalidated

SpecHelper == InitHelper /\ [][NextHelper]_vars

(***************************************************************************)
(* SpecCalc: the pipeline applied to arbitrary inputs                      *)
(***************************************************************************)
InitCalc ==
    /\ retailPrice \in PriceValues
    /\ retailMarkup \in MarkupValues
    /\ tariffRate \in TariffValues
    /\ customPassThrough \in PassThroughValues
    /\ inventoryBuffer \in InventoryValues
    /\ UiDefaults
    /\ FnDefaults
    /\ argA = Undefined
    /\ argB = Undefined
    /\ argProduct = NoProduct

Compute == Apply("calculations", Return(calculations))

NextCalc == Compute

SpecCalc == InitCalc /\ [][NextCalc]_vars

(***************************************************************************)
(* SpecPassThrough: the pass-through derivations applied to a product      *)
(***************************************************************************)
InitPassThrough ==
    /\ InputDefaults
    /\ UiDefaults
    /\ FnDefaults
    /\ argA = Undefined
    /\ argB = Undefined
    /\ argProduct \in ProductArgs

ApplyCalculatePassThrough == Apply("calculatePassThrough", calculatePassThrough(argProduct))
ApplyCalculatePassThroughUnvalidated ==
    Apply("calculatePassThroughUnvalidated", calculatePassThroughUnvalidated(argProduct))
ApplyCalculatedPassThrough ==
    Apply("calculatedPassThrough", Return(calculatedPassThroughOf(argProduct)))

NextPassThrough ==
    \/ ApplyCalculatePassThrough
    \/ ApplyCalculatePassThroughUnvalidated
    \/ ApplyCalculatedPassThrough

SpecPassThrough == InitPassThrough /\ [][NextPassThrough]_vars

(***************************************************************************)
(* Spec: the Calculator component                                          *)
(***************************************************************************)
MaxApiProducts == 3
MaxUiPriceSteps == 0
MaxUiSliderSteps == 1
MaxRequests == 2
\* the delay of the debounce timer in milliseconds
DebounceDelay == 500

IMin(a, b) == IF a < b THEN a ELSE b

\* a product of tariff-tax/src/App.jsx that the products prop may carry
LocalCatalog ==
    <<LocalProduct("854430", Rat(-22, 10), Rat(19, 10))>>

\* products an API response may list
ApiPool ==
    <<ApiProduct("851712", Num(-2), Rat(3, 2)),
      LocalProduct("847130", Zero, Zero),
      ApiProduct("870323", Zero, Rat(3, 2)),
      BareProduct("999999"),
      ApiProduct("721410", Num(-1), Num(1))>>

\* what api.getProducts() may resolve to: an empty array, an array of
\* products, or another value
ApiResponses ==
    {[isArray |-> TRUE, items |-> SubSeq(ApiPool, 1, k)] :
        k \in {0, IMin(MaxApiProducts, Len(ApiPool))}}
    \cup {[isArray |-> FALSE, items |-> <<>>]}

\* values the controls can set: the price field takes any number
\* (parseFloat(...) || 0), the sliders are limited by their min and max; the
\* markup, tariff and inventory sliders are moved to one end of their range
UiPriceValues == {Num(50 * k) : k \in 0..MaxUiPriceSteps}
UiMarkupValues == {Num(200)}
UiTariffRateValues == {Zero}
UiPassThroughValues == {Num(m) : m \in {50 * k : k \in 1..MaxUiSliderSteps} \cap 0..100}
UiInventoryValues == {Twelve}

\* Calculator.jsx, allProducts
allProductsOf(api, props) == IF Len(api) > 0 THEN api ELSE props

allProducts == allProductsOf(apiProducts, products)

\* Array.prototype.find of Calculator.jsx, selectedProductData
FindProduct(list, hs) ==
    IF \E i \in 1..Len(list) : list[i].hsCode = hs
    THEN list[CHOOSE i \in 1..Len(list) :
                  /\ list[i].hsCode = hs
                  /\ \A j \in 1..(i - 1) : list[j].hsCode # hs]
    ELSE NoProduct

selectedProductData == FindProduct(allProducts, selectedProduct)

calculatedPassThrough == calculatedPassThroughOf(selectedProductData)

\* the effect on [calculatedPassThrough] never touching customPassThrough
CustomPassThroughEffectKeeps(newSelected, newApi, custom) == custom

\* Calculator.jsx, useEffect on [calculatedPassThrough]: after a render in
\* which calculatedPassThrough changed, customPassThrough is set to it
CustomPassThroughEffect(newSelected, newApi, custom) ==
    LET newRate == calculatedPassThroughOf(
                       FindProduct(allProductsOf(newApi, products), newSelected))
    IN  IF newRate = calculatedPassThrough THEN custom ELSE newRate

\* the dependency list of the debounce effect, which is also what the
\* performApiCalculation of a render sends
debounceDeps ==
    <<retailPrice, retailMarkup, tariffRate, customPassThrough, inventoryBuffer,
      selectedProduct>>

\* the debounce effect with a dependency list of the price and the tariff only
DebounceEffectPriceTariffOnly ==
    timer' = IF <<retailPrice', tariffRate'>> = <<retailPrice, tariffRate>>
             THEN timer
             ELSE IF JsGt(retailPrice', Zero) /\ JsGe(tariffRate', Zero)
                  THEN [armed |-> TRUE, remaining |-> DebounceDelay,
                        inputs |-> debounceDeps']
                  ELSE NoTimer

\* Calculator.jsx, debounce useEffect, run after the renders of a step: when a
\* dependency changed the cleanup clears the pending timer, and a new timer
\* holding the performApiCalculation of the new render is set if
\* retailPrice > 0 && tariffRate >= 0
DebounceEffect ==
    timer' = IF debounceDeps' = debounceDeps
             THEN timer
             ELSE IF JsGt(retailPrice', Zero) /\ JsGe(tariffRate', Zero)
                  THEN [armed |-> TRUE, remaining |-> DebounceDelay,
                        inputs |-> debounceDeps']
                  ELSE NoTimer

\* the state after the first render and its effects: fetchProducts() is
\* awaiting api.getProducts(), the debounce timer is set
Init ==
    /\ InputDefaults
    /\ selectedProduct = ""
    /\ products \in {<<>>, LocalCatalog}
    /\ apiProducts = <<>>
    /\ loading = TRUE
    /\ error = "null"
    /\ fetchState = "pending"
    /\ timer = [armed |-> TRUE, remaining |-> DebounceDelay, inputs |-> debounceDeps]
    /\ calculating = FALSE
    /\ apiCalculations = 0
    /\ inFlight = {}
    /\ issued = 0
    /\ sent = NoRequests
    /\ pc = "mounted"
    /\ op = "none"
    /\ result = NoResult
    /\ argA = Undefined
    /\ argB = Undefined
    /\ argProduct = NoProduct

fnVars == <<pc, op, argA, argB, argProduct, result>>

\* fetchProducts(): api.getProducts() resolves
FetchProductsSucceed ==
    /\ fetchState = "pending"
    /\ \E response \in ApiResponses :
          LET data == IF response.isArray THEN response.items ELSE <<>>
          IN  /\ apiProducts' = data
              /\ customPassThrough' =
                     CustomPassThroughEffect(selectedProduct, data, customPassThrough)
    /\ loading' = FALSE
    /\ fetchState' = "done"
    /\ UNCHANGED <<retailPrice, retailMarkup, tariffRate, inventoryBuffer,
                   selectedProduct, products, error, calcVars, fnVars>>
    /\ DebounceEffect

\* fetchProducts() rejecting without the setLoading(false) of its finally
FetchProductsFailKeepsLoading ==
    /\ fetchState = "pending"
    /\ error' = "Failed to fetch products"
    /\ apiProducts' = <<>>
    /\ customPassThrough' = CustomPassThroughEffect(selectedProduct, <<>>, customPassThrough)
    /\ fetchState' = "done"
    /\ UNCHANGED <<retailPrice, retailMarkup, tariffRate, inventoryBuffer,
                   selectedProduct, products, loading, calcVars, fnVars>>
    /\ DebounceEffect

\* fetchProducts(): api.getProducts() rejects
FetchProductsFail ==
    /\ fetchState = "pending"
    /\ error' = "Failed to fetch products"
    /\ apiProducts' = <<>>
    /\ customPassThrough' = CustomPassThroughEffect(selectedProduct, <<>>, customPassThrough)
    /\ loading' = FALSE
    /\ fetchState' = "done"
    /\ UNCHANGED <<retailPrice, retailMarkup, tariffRate, inventoryBuffer,
                   selectedProduct, products, calcVars, fnVars>>
    /\ DebounceEffect

\* click on a listed product: setSelectedProduct(hsCode)
SelectProduct ==
    /\ \E i \in 1..Len(allProducts) :
          /\ selectedProduct' = allProducts[i].hsCode
          /\ customPassThrough' =
                 CustomPassThroughEffect(allProducts[i].hsCode, apiProducts, customPassThrough)
    /\ UNCHANGED <<retailPrice, retailMarkup, tariffRate, inventoryBuffer,
                   products, apiProducts, loading, error, fetchState, calcVars, fnVars>>
    /\ DebounceEffect

\* retail price field: setRetailPrice(parseFloat(e.target.value) || 0)
SetRetailPrice ==
    /\ \E v \in UiPriceValues \cup {NaN} : retailPrice' = JsOr(v, Zero)
    /\ UNCHANGED <<retailMarkup, tariffRate, inventoryBuffer, customPassThrough,
                   uiVars, calcVars, fnVars>>
    /\ DebounceEffect

SetRetailMarkup ==
    /\ \E v \in UiMarkupValues : retailMarkup' = v
    /\ UNCHANGED <<retailPrice, tariffRate, inventoryBuffer, customPassThrough,
                   uiVars, calcVars, fnVars>>
    /\ DebounceEffect

SetTariffRate ==
    /\ \E v \in UiTariffRateValues : tariffRate' = v
    /\ UNCHANGED <<retailPrice, retailMarkup, inventoryBuffer, customPassThrough,
                   uiVars, calcVars, fnVars>>
    /\ DebounceEffect

SetCustomPassThrough ==
    /\ \E v \in UiPassThroughValues : customPassThrough' = v
    /\ UNCHANGED <<retailPrice, retailMarkup, tariffRate, inventoryBuffer,
                   uiVars, calcVars, fnVars>>
    /\ DebounceEffect

SetInventoryBuffer ==
    /\ \E v \in UiInventoryValues : inventoryBuffer' = v
    /\ UNCHANGED <<retailPrice, retailMarkup, tariffRate, customPassThrough,
                   uiVars, calcVars, fnVars>>
    /\ DebounceEffect

\* the delay of the pending timer elapses without a change of the inputs
TimerExpires ==
    /\ timer.armed
    /\ timer.remaining > 0
    /\ timer' = [timer EXCEPT !.remaining = 0]
    /\ UNCHANGED <<inputVars, uiVars, calcVars, fnVars>>

\* the requests whose retail_price is still held: by the pending call of
\* performApiCalculation() or, through the response, by apiCalculations
Held(flying, response) == (flying \cup {response}) \ {0}

\* the expired timer runs performApiCalculation() up to its await: the
\* request carries the values of the render that set the timer
TimerFires ==
    /\ timer.armed
    /\ timer.remaining = 0
    /\ issued < MaxRequests
    /\ timer' = NoTimer
    /\ calculating' = TRUE
    /\ error' = "null"
    /\ issued' = issued + 1
    /\ inFlight' = inFlight \cup {issued + 1}
    /\ sent' = [id \in Held(inFlight', apiCalculations) |->
                    IF id = issued + 1 THEN timer.inputs[1] ELSE sent[id]]
    /\ UNCHANGED <<inputVars, selectedProduct, products, apiProducts, loading,
                   fetchState, apiCalculations, fnVars>>

\* performApiCalculation(): api.calculateTariffImpact() resolves
CalculationSucceeds ==
    /\ \E id \in inFlight :
          /\ apiCalculations' = id
          /\ inFlight' = inFlight \ {id}
    /\ sent' = [id \in Held(inFlight', apiCalculations') |-> sent[id]]
    /\ calculating' = FALSE
    /\ UNCHANGED <<inputVars, uiVars, timer, issued, fnVars>>

\* performApiCalculation() rejecting with a setApiCalculations(null) in its catch
CalculationFailsClears ==
    /\ \E id \in inFlight : inFlight' = inFlight \ {id}
    /\ apiCalculations' = 0
    /\ sent' = [id \in Held(inFlight', 0) |-> sent[id]]
    /\ error' = "Failed to calculate. Please try again."
    /\ calculating' = FALSE
    /\ UNCHANGED <<inputVars, selectedProduct, products, apiProducts, loading,
                   fetchState, timer, issued, fnVars>>

\* performApiCalculation(): api.calculateTariffImpact() rejects
CalculationFails ==
    /\ \E id \in inFlight : inFlight' = inFlight \ {id}
    /\ sent' = [id \in Held(inFlight', apiCalculations) |-> sent[id]]
    /\ error' = "Failed to calculate. Please try again."
    /\ calculating' = FALSE
    /\ UNCHANGED <<inputVars, selectedProduct, products, apiProducts, loading,
                   fetchState, timer, apiCalculations, issued, fnVars>>

Next ==
    \/ FetchProductsSucceed
    \/ FetchProductsFail
    \/ SelectProduct
    \/ SetRetailPrice
    \/ SetRetailMarkup
    \/ SetTariffRate
    \/ SetCustomPassThrough
    \/ SetInventoryBuffer
    \/ TimerExpires
    \/ TimerFires
    \/ CalculationSucceeds
    \/ CalculationFails

Spec == Init /\ [][Next]_vars

(***************************************************************************)
(* Vocabulary of the claims                                                *)
(***************************************************************************)
\* x clamped to [lo, hi], for a number x that is not NaN
Clamp(x, lo, hi) == IF JsLt(x, lo) THEN lo ELSE IF JsGt(x, hi) THEN hi ELSE x

\* x >= 0 rounded to a multiple of 1/scale, halves rounded up
RoundTo(x, scale) == Rat((2 * x.n * scale + x.d) \div (2 * x.d), scale)

\* an outcome that reports a failure instead of handing back a plain value
Flagged(outcome) == outcome.kind # "return"

Applied(name) == pc = "done" /\ op = name

ValidInput ==
    /\ JsGt(retailPrice, Zero)
    /\ JsGt(retailMarkup, Num(-100))
    /\ JsGe(tariffRate, Zero)

ScenarioOne ==
    /\ retailPrice = Num(100)
    /\ retailMarkup = Num(50)
    /\ tariffRate = Num(25)
    /\ customPassThrough = Num(75)
    /\ inventoryBuffer = Num(3)

\* the formulas of the pipeline composed in their order, without any guard
Composition ==
    LET importCost == JsDiv(retailPrice, JsAdd(One, JsDiv(retailMarkup, Hundred)))
        tariffAmount == JsDiv(JsMul(importCost, tariffRate), Hundred)
        tariffPassed ==
            JsDiv(JsMul(tariffAmount, Clamp(customPassThrough, Zero, Hundred)), Hundred)
        futurePrice == JsAdd(retailPrice, tariffPassed)
        taxPct == JsMul(JsDiv(tariffPassed, futurePrice), Hundred)
        priceIncreasePercent == JsMul(JsDiv(tariffPassed, retailPrice), Hundred)
        inventoryAdjusted ==
            JsMul(tariffPassed,
                  JsSub(One, JsDiv(Clamp(inventoryBuffer, Zero, Twelve), Twelve)))
    IN  [importCost |-> importCost,
         tariffAmount |-> tariffAmount,
         tariffPassed |-> tariffPassed,
         futurePrice |-> futurePrice,
         tariffTaxPct |-> taxPct,
         inventoryAdjustedIncrease |-> inventoryAdjusted,
         priceIncreasePercent |-> priceIncreasePercent]

(***************************************************************************)
(* C1: for every valid input the computed record equals the composition of *)
(* the formulas in their fixed order, each step using only the outputs of  *)
(* earlier steps; (100, 50, 25, 75, 3) gives 66.67, 16.67, 12.50, 112.50,  *)
(* 11.11 and 9.375.                                                        *)
(***************************************************************************)
C1_ResultIsComposition ==
    (Applied("calculations") /\ ValidInput) =>
        /\ result = Return(Composition)
        /\ ScenarioOne =>
            /\ RoundTo(result.value.importCost, 100) = Rat(6667, 100)
            /\ RoundTo(result.value.tariffAmount, 100) = Rat(1667, 100)
            /\ result.value.tariffPassed = Rat(1250, 100)
            /\ result.value.futurePrice = Rat(11250, 100)
            /\ RoundTo(result.value.tariffTaxPct, 100) = Rat(1111, 100)
            /\ result.value.inventoryAdjustedIncrease = Rat(9375, 1000)

C1_Witness ==
    /\ Applied("calculations")
    /\ ScenarioOne
    /\ result.value.inventoryAdjustedIncrease = Rat(9375, 1000)

NoElasticity(product) ==
    \/ ~product.exists
    \/ /\ ~product.elasticity
       /\ product.demand_elasticity = Undefined
       /\ product.supply_elasticity = Undefined

\* the elasticity pair <<demand, supply>> a product carries
ElasticityPair(product) ==
    IF product.elasticity
    THEN <<product.demand, product.supply>>
    ELSE <<product.demand_elasticity, product.supply_elasticity>>

\* the derivations that read the pair of the product at hand: the helpers read
\* the elasticity object only, the Calculator reads either shape
ReadsPair ==
    /\ pc = "done"
    /\ argProduct.exists
    /\ \/ op = "calculatedPassThrough"
       \/ op \in {"calculatePassThrough", "calculatePassThroughUnvalidated"}
          /\ argProduct.elasticity

(***************************************************************************)
(* C6: the pass-through derivation returns the fixed default 75 whenever   *)
(* no elasticity is available (no product, or a product without an         *)
(* elasticity pair).                                                       *)
(***************************************************************************)
C6_DefaultWithoutElasticity ==
    (/\ pc = "done"
     /\ op \in {"calculatePassThrough", "calculatedPassThrough"}
     /\ NoElasticity(argProduct)) =>
        result = Return(DefaultPassThrough)

(***************************************************************************)
(* C7: when the selected harmonized-system code is not found in the        *)
(* product list, the derived pass-through is the default 75, the rate in   *)
(* use is 75 unless the user has set the slider, and the calculation       *)
(* yields its record of numbers.                                           *)
(***************************************************************************)
C7_NotFoundFallsBack ==
    (~selectedProductData.exists) =>
        /\ calculatedPassThrough = DefaultPassThrough
        /\ customPassThrough \in {DefaultPassThrough} \cup UiPassThroughValues
        /\ IsFinite(calculations.tariffPassed)
        /\ IsFinite(calculations.futurePrice)
        /\ calculations.futurePrice =
               JsAdd(retailPrice,
                     JsDiv(JsMul(calculations.tariffAmount, customPassThrough), Hundred))

C7_Witness ==
    /\ selectedProduct = "854430"
    /\ ~selectedProductData.exists
    /\ Len(apiProducts) > 0
    /\ customPassThrough = DefaultPassThrough
    /\ calculations.tariffPassed = Rat(5, 1)

(***************************************************************************)
(* C8: for every elasticity pair with supply > 0 and demand < 0 the        *)
(* derived pass-through lies strictly between 0 and 100.                   *)
(***************************************************************************)
C8_PassThroughBounds ==
    (/\ ReadsPair
     /\ JsLt(ElasticityPair(argProduct)[1], Zero)
     /\ JsGt(ElasticityPair(argProduct)[2], Zero)) =>
        /\ result.kind = "return"
        /\ JsGt(result.value, Zero)
        /\ JsLt(result.value, Hundred)

C8_Witness ==
    /\ Applied("calculatePassThrough")
    /\ argProduct = LocalProduct("p", Num(-2), Rat(3, 2))
    /\ result = Return(Rat(300, 7))

(***************************************************************************)
(* C9: when both supply and |demand| are zero the pass-through derivation  *)
(* fails; it never returns an undefined (NaN) rate.                        *)
(***************************************************************************)
C9_ZeroElasticityFails ==
    (/\ ReadsPair
     /\ ElasticityPair(argProduct) = <<Zero, Zero>>) =>
        /\ Flagged(result)
        /\ ~IsNaN(result.value)

C14_ZeroTariffIdentity ==
    (/\ Applied("calculations")
     /\ JsGt(retailPrice, Zero)
     /\ JsGt(retailMarkup, Num(-100))
     /\ tariffRate = Zero) =>
        /\ result.value.tariffAmount = Zero
        /\ result.value.tariffPassed = Zero
        /\ result.value.futurePrice = retailPrice
        /\ result.value.tariffTaxPct = Zero

C14_Witness ==
    /\ Applied("calculations")
    /\ retailPrice = Num(100)
    /\ retailMarkup = Num(50)
    /\ tariffRate = Zero
    /\ customPassThrough = Num(125)
    /\ inventoryBuffer = Num(15)
    /\ result.value.futurePrice = Num(100)

(***************************************************************************)
(* C15: full pass-through ceiling: for every tariffAmount >= 0 a           *)
(* pass-through rate of exactly 100 gives tariffPassed = tariffAmount.     *)
(***************************************************************************)
C15_FullPassThrough ==
    (/\ Applied("calculateTariffPassed")
     /\ TypeofNumber(argA)
     /\ JsGe(argA, Zero)
     /\ argB = Hundred) =>
        result = Return(argA)

C15_Witness ==
    /\ Applied("calculateTariffPassed")
    /\ argA = Num(75)
    /\ argB = Hundred
    /\ result = Return(Num(75))

(***************************************************************************)
(* C16: clamping is idempotent: the [0,100] and the [0,12] clamp applied   *)
(* to an already clamped value return that value, so feeding a clamped     *)
(* value back through calculateTariffPassed or calculateInventoryImpact    *)
(* gives the same result as the unclamped original.                        *)
(***************************************************************************)
\* the rate calculateTariffPassed works with, read off a tariffAmount of 100
ClampedRateOf(rate) == calculateTariffPassed(Hundred, rate)

\* the months calculateInventoryImpact works with, read off an increase of 12
ClampedMonthsOf(months) == JsSub(Twelve, calculateInventoryImpact(months, Twelve))

C16_ClampIdempotent ==
    /\ (/\ Applied("calculateTariffPassed")
        /\ TypeofNumber(argB)
        /\ ~IsNaN(argB)) =>
           /\ ClampedRateOf(argB) = Clamp(argB, Zero, Hundred)
           /\ ClampedRateOf(ClampedRateOf(argB)) = ClampedRateOf(argB)
           /\ result = Return(calculateTariffPassed(argA, Clamp(argB, Zero, Hundred)))
    /\ (/\ Applied("calculateInventoryImpact")
        /\ TypeofNumber(argA)
        /\ ~IsNaN(argA)) =>
           /\ ClampedMonthsOf(argA) = Clamp(argA, Zero, Twelve)
           /\ ClampedMonthsOf(ClampedMonthsOf(argA)) = ClampedMonthsOf(argA)
           /\ result = Return(calculateInventoryImpact(Clamp(argA, Zero, Twelve), argB))

C16_Witness ==
    /\ Applied("calculateInventoryImpact")
    /\ argA = Num(-25)
    /\ argB = Num(50)
    /\ ClampedMonthsOf(argA) = Zero
    /\ result = Return(Num(50))

(***************************************************************************)
(* C18: markup inversion round trip: for retailPrice > 0 and markup > -100 *)
(* the import cost times (1 + markup / 100) equals retailPrice.            *)
(***************************************************************************)
C18_MarkupRoundTrip ==
    (/\ Applied("calculateImportCost")
     /\ IsFinite(argA)
     /\ JsGt(argA, Zero)
     /\ IsFinite(argB)
     /\ JsGt(argB, Num(-100))) =>
        /\ result.kind = "return"
        /\ JsMul(result.value, JsAdd(One, JsDiv(argB, Hundred))) = argA

C18_Witness ==
    /\ Applied("calculateImportCost")
    /\ argA = Num(100)
    /\ argB = Num(50)
    /\ result = Return(Rat(200, 3))

(***************************************************************************)
(* C19: the pass-through rate fed to the calculation follows one           *)
(* precedence rule in every state: the explicit user override if one is    *)
(* set, otherwise the rate derived from the selected product, otherwise    *)
(* the default 75; a derived or default value never replaces an explicit   *)
(* override that is in force.  An override is in force when the rate in    *)
(* use differs from the derived rate; it is replaced when a step that is   *)
(* not a move of the slider changes the rate in use.                       *)
(***************************************************************************)
\* calculatedPassThrough as the render after the step computes it
calculatedPassThroughAfter ==
    calculatedPassThroughOf(
        FindProduct(allProductsOf(apiProducts', products'), selectedProduct'))

C19_OverrideNeverReplaced ==
    [][(/\ customPassThrough # calculatedPassThrough
        /\ calculatedPassThroughAfter # calculatedPassThrough) =>
           customPassThrough' = customPassThrough]_vars

\* C19 as the code has it: the rate fed to the calculation is
\* customPassThrough; it differs from the derived rate only as a value of the
\* slider, only the slider changes it while the derived rate stays the same,
\* and every change of the derived rate resets it to the new derived rate
C19_OverrideUntilDerivedChanges ==
    /\ [](LET c == calculations
          IN  /\ c.tariffPassed = calculateTariffPassed(c.tariffAmount, customPassThrough)
              /\ customPassThrough # calculatedPassThrough =>
                     customPassThrough \in UiPassThroughValues)
    /\ [][\/ <<selectedProduct, products, apiProducts, customPassThrough>>' =
                 <<selectedProduct, products, apiProducts, customPassThrough>>
          \/ LET before == calculatedPassThrough
                 after == calculatedPassThroughAfter
             IN  /\ after # before => customPassThrough' = after
                 /\ (after = before /\ customPassThrough' # customPassThrough) =>
                        customPassThrough' \in UiPassThroughValues]_vars

C19_Witness ==
    /\ selectedProduct = "851712"
    /\ selectedProductData.exists
    /\ calculatedPassThrough = Rat(300, 7)
    /\ customPassThrough = Num(50)
    /\ calculations.tariffPassed = Rat(10, 3)

(***************************************************************************)
(* C20: debounce: the remote calculation is invoked at most once per       *)
(* settled input state.  Every change of the price, markup, tariff,        *)
(* pass-through, inventory or selected product cancels the pending timer,  *)
(* so a request is issued only for an input state that stayed unchanged    *)
(* for the whole delay, and never for a superseded input state.            *)
(***************************************************************************)
C20_Debounced ==
    /\ [](timer.armed => timer.inputs = debounceDeps)
    /\ [][issued' # issued =>
              /\ timer.armed
              /\ timer.remaining = 0
              /\ timer.inputs = debounceDeps
              /\ debounceDeps' = debounceDeps
              /\ ~timer'.armed
              /\ issued' = issued + 1]_vars
    /\ [][debounceDeps' # debounceDeps =>
              /\ issued' = issued
              /\ timer'.armed =>
                     /\ timer'.remaining = DebounceDelay
                     /\ timer'.inputs = debounceDeps']_vars
    /\ [][(timer'.armed /\ (~timer.armed \/ timer'.remaining > timer.remaining)) =>
              debounceDeps' # debounceDeps]_vars

C20_Witness ==
    /\ issued = 1
    /\ inFlight = {1}
    /\ ~timer.armed
    /\ retailPrice = Num(100)
    /\ retailMarkup = Num(200)
    /\ inventoryBuffer = Twelve

(***************************************************************************)
(* C21: when a remote calculation is superseded by newer input while still *)
(* in flight, its result is discarded: after all in-flight requests have   *)
(* completed, apiCalculations holds the response of the most recently      *)
(* issued request, whatever the order in which the responses arrive.  Once *)
(* the response of the most recently issued request is held, the           *)
(* completion of the last older request leaves it in place.                *)
(***************************************************************************)
C21_LatestResponseWins ==
    [][(/\ issued > 0
        /\ apiCalculations = issued
        /\ issued' = issued
        /\ inFlight' = {}) =>
           apiCalculations' = issued]_vars

(***************************************************************************)
(* C22: whenever the selected product carries elasticity data, the derived *)
(* pass-through is supply / (supply + |demand|) * 100, also when one       *)
(* component is zero: a supply elasticity of 0 with a non-zero demand      *)
(* elasticity derives 0, and a demand elasticity of 0 with a positive      *)
(* supply elasticity derives 100, not the default 75.                      *)
(***************************************************************************)
C22_FormulaWithZeroComponent ==
    (/\ ReadsPair
     /\ IsFinite(ElasticityPair(argProduct)[1])
     /\ IsFinite(ElasticityPair(argProduct)[2])) =>
        LET demand == ElasticityPair(argProduct)[1]
            supply == ElasticityPair(argProduct)[2]
        IN  /\ result = Return(PassThroughFormula(demand, supply))
            /\ (supply = Zero /\ demand # Zero) => result = Return(Zero)
            /\ (demand = Zero /\ JsGt(supply, Zero)) => result = Return(Hundred)

(***************************************************************************)
(* C23: whenever the product selection changes, customPassThrough is reset *)
(* to the pass-through derived for the newly selected product (75 when     *)
(* none can be derived), discarding any manual override made for the       *)
(* previous selection; this holds for every pair of previous and new       *)
(* products, including two products whose derived rates are equal.         *)
(***************************************************************************)
C23_SelectionResetsPassThrough ==
    [][selectedProduct' # selectedProduct =>
           customPassThrough' = calculatedPassThroughAfter]_vars

(***************************************************************************)
(* C24: in the Calculator, whenever no debounce timer is pending and no    *)
(* remote calculation is in flight, every displayed metric is the value    *)
(* computed for the current inputs; a result for earlier inputs is never   *)
(* shown in such a quiescent state, including after a failed request and   *)
(* after the price was set to 0.  The panel shows the fields of            *)
(* apiCalculations when it is not null and the local calculations          *)
(* otherwise, so a response that is held has to be the one computed for    *)
(* the current retailPrice.                                                *)
(***************************************************************************)
C24_QuiescentShowsCurrent ==
    (~timer.armed /\ inFlight = {} /\ apiCalculations # 0) =>
        sent[apiCalculations] = retailPrice

\* the inputs lie in the ranges of the Calculator's controls
WithinControlRanges ==
    /\ IsFinite(retailPrice)
    /\ JsGe(retailMarkup, Zero) /\ JsLe(retailMarkup, Num(200))
    /\ JsGe(tariffRate, Zero) /\ JsLe(tariffRate, Hundred)
    /\ JsGe(customPassThrough, Zero) /\ JsLe(customPassThrough, Hundred)
    /\ JsGe(inventoryBuffer, Zero) /\ JsLe(inventoryBuffer, Twelve)

(***************************************************************************)
(* C25: for every input state reachable through the Calculator's controls  *)
(* (retail price any parsed number, or 0 when the field does not parse;    *)
(* markup 0..200; tariff 0..100; pass-through 0..100; inventory 0..12),    *)
(* every field of the locally computed calculations record,                *)
(* priceIncreasePercent included, is a finite number, never NaN or         *)
(* Infinity.                                                               *)
(***************************************************************************)
C25_CalculationsFinite ==
    WithinControlRanges =>
        LET c == calculations
        IN  /\ IsFinite(c.importCost)
            /\ IsFinite(c.tariffAmount)
            /\ IsFinite(c.tariffPassed)
            /\ IsFinite(c.futurePrice)
            /\ IsFinite(c.tariffTaxPct)
            /\ IsFinite(c.inventoryAdjustedIncrease)
            /\ IsFinite(c.priceIncreasePercent)

(***************************************************************************)
(* C26: for all inputs with retailPrice > 0, markup > -100 and tariff >= 0,*)
(* with pass-through and inventory months arbitrary (in or out of range),  *)
(* the result satisfies 0 <= inventoryAdjustedIncrease <= tariffPassed <=  *)
(* tariffAmount, futurePrice >= retailPrice, and 0 <= tariffTaxPct < 100.  *)
(***************************************************************************)
C26_ResultOrdered ==
    (Applied("calculations") /\ ValidInput) =>
        LET r == result.value
        IN  /\ JsLe(Zero, r.inventoryAdjustedIncrease)
            /\ JsLe(r.inventoryAdjustedIncrease, r.tariffPassed)
            /\ JsLe(r.tariffPassed, r.tariffAmount)
            /\ JsGe(r.futurePrice, retailPrice)
            /\ JsLe(Zero, r.tariffTaxPct)
            /\ JsLt(r.tariffTaxPct, Hundred)

C26_Witness ==
    /\ Applied("calculations")
    /\ retailPrice = Num(100)
    /\ retailMarkup = Num(50)
    /\ tariffRate = Num(25)
    /\ customPassThrough = Num(125)
    /\ inventoryBuffer = Num(-3)
    /\ result.value.tariffAmount = Rat(50, 3)
    /\ result.value.tariffPassed = Rat(50, 3)
    /\ result.value.inventoryAdjustedIncrease = Rat(50, 3)
    /\ result.value.tariffTaxPct = Rat(100, 7)

\* one of two versions of a helper has been applied
AppliedEither(name) == pc = "done" /\ op \in {name, name \o "Unvalidated"}

(***************************************************************************)
(* C27: the validating versions of the calculation helpers return the same *)
(* values as the unvalidated versions for every in-range input: a product  *)
(* with numeric elasticity, retailPrice > 0, markup > -100, importCost >=  *)
(* 0, tariff >= 0, tariffAmount >= 0, pass-through in [0,100],             *)
(* tariffPassed >= 0, inventory months in [0,12]; the two differ only on   *)
(* out-of-range or non-numeric inputs.                                     *)
(***************************************************************************)
C27_VersionsAgreeInRange ==
    /\ (/\ AppliedEither("calculatePassThroughOfPair")
        /\ TypeofNumber(argA)
        /\ TypeofNumber(argB)) =>
           /\ result = calculatePassThrough(LocalProduct("p", argA, argB))
           /\ result = calculatePassThroughUnvalidated(LocalProduct("p", argA, argB))
    /\ (/\ AppliedEither("calculateConsumerBurden")
        /\ JsGe(argA, Zero)
        /\ JsGe(argB, Zero) /\ JsLe(argB, Hundred)) =>
           /\ result = Return(calculateConsumerBurden(argA, argB))
           /\ result = Return(calculateConsumerBurdenUnvalidated(argA, argB))
    /\ (/\ AppliedEither("calculateImportCost")
        /\ JsGt(argA, Zero)
        /\ JsGt(argB, Num(-100))) =>
           /\ result = Return(calculateImportCost(argA, argB))
           /\ result = Return(calculateImportCostUnvalidated(argA, argB))
    /\ (/\ AppliedEither("calculateTariffAmount")
        /\ JsGe(argA, Zero)
        /\ JsGe(argB, Zero)) =>
           /\ result = Return(calculateTariffAmount(argA, argB))
           /\ result = Return(calculateTariffAmountUnvalidated(argA, argB))
    /\ (/\ AppliedEither("calculateTariffPassed")
        /\ JsGe(argA, Zero)
        /\ JsGe(argB, Zero) /\ JsLe(argB, Hundred)) =>
           /\ result = Return(calculateTariffPassed(argA, argB))
           /\ result = Return(calculateTariffPassedUnvalidated(argA, argB))
    /\ (/\ AppliedEither("calculateFuturePrice")
        /\ JsGt(argA, Zero)
        /\ JsGe(argB, Zero)) =>
           /\ result = Return(calculateFuturePrice(argA, argB))
           /\ result = Return(calculateFuturePriceUnvalidated(argA, argB))
    /\ (/\ AppliedEither("calculateTariffTaxPercentage")
        /\ JsGe(argA, Zero)
        /\ TypeofNumber(argB) /\ ~IsNaN(argB)) =>
           /\ result = Return(calculateTariffTaxPercentage(argA, argB))
           /\ result = Return(calculateTariffTaxPercentageUnvalidated(argA, argB))
    /\ (/\ AppliedEither("calculateInventoryImpact")
        /\ JsGe(argA, Zero) /\ JsLe(argA, Twelve)
        /\ JsGe(argB, Zero)) =>
           /\ result = Return(calculateInventoryImpact(argA, argB))
           /\ result = Return(calculateInventoryImpactUnvalidated(argA, argB))

C27_Witness ==
    /\ Applied("calculateInventoryImpactUnvalidated")
    /\ argA = Num(6)
    /\ argB = Num(50)
    /\ result = Return(Num(25))
    /\ result = Return(calculateInventoryImpact(argA, argB))

(***************************************************************************)
(* C28: after fetchProducts completes, by success or by failure, loading   *)
(* is false and apiProducts is an array: on success it is the response     *)
(* when that is an array and the empty list otherwise; on failure it is    *)
(* the empty list and error is 'Failed to fetch products'.  loading is     *)
(* true from the start of the fetch until it completes.                    *)
(***************************************************************************)
C28_FetchCompletes ==
    /\ [](loading <=> fetchState = "pending")
    /\ [][(fetchState = "pending" /\ fetchState' # fetchState) =>
              /\ fetchState' = "done"
              /\ ~loading'
              /\ \/ /\ error' = error
                    /\ \E response \in ApiResponses :
                          apiProducts' = IF response.isArray THEN response.items ELSE <<>>
                 \/ /\ error' = "Failed to fetch products"
                    /\ apiProducts' = <<>>]_vars
    /\ [][fetchState = "done" =>
              /\ fetchState' = "done"
              /\ apiProducts' = apiProducts
              /\ ~loading']_vars

C28_Witness ==
    /\ fetchState = "done"
    /\ ~loading
    /\ apiProducts = <<>>
    /\ error = "Failed to fetch products"

(***************************************************************************)
(* C29: when a remote calculation fails, performApiCalculation sets error  *)
(* to 'Failed to calculate. Please try again.' and leaves apiCalculations  *)
(* unchanged (the previous response, or null if there was none);           *)
(* apiCalculations changes only when a request succeeds.  A request that   *)
(* completes either stores its own response or fails.                      *)
(***************************************************************************)
C29_FailureKeepsResult ==
    [][/\ (inFlight' # inFlight /\ issued' = issued) =>
              \E id \in inFlight :
                 /\ inFlight' = inFlight \ {id}
                 /\ \/ apiCalculations' = id
                    \/ /\ apiCalculations' = apiCalculations
                       /\ error' = "Failed to calculate. Please try again."
       /\ apiCalculations' # apiCalculations =>
              /\ apiCalculations' \in inFlight
              /\ inFlight' = inFlight \ {apiCalculations'}]_vars

C29_Witness ==
    /\ issued = 2
    /\ inFlight = {}
    /\ ~calculating
    /\ apiCalculations = 1
    /\ error = "Failed to calculate. Please try again."

(***************************************************************************)
(* C30: in every reachable state of the Calculator, the calculating flag   *)
(* is true exactly when at least one remote calculation is in flight, also *)
(* when a second request is started before the first one has completed.    *)
(***************************************************************************)
C30_CalculatingIffInFlight == calculating <=> inFlight # {}

====
